---- MODULE Spec2Model ----
(***************************************************************************)
(* A model of testdb.go, the stub database/sql driver of quii/go-testdb:   *)
(* the Driver and its shared Conn, the Conn's stub registry keyed by the   *)
(* SHA-1 of the normalised query, the Stmt and Tx shells, the Rows cursor  *)
(* and RowsFromCSVString.                                                  *)
(*                                                                         *)
(* Strings are sequences of one-character strings, so that normalisation,  *)
(* trimming, CSV splitting, the time pattern and the time layout are       *)
(* computed character by character as the code computes them.              *)
(***************************************************************************)
EXTENDS Integers, Sequences, FiniteSets, TLC

VARIABLES
    driver,     \* the Driver: its open function and its shared *Conn
    conns,      \* the heap of Conn objects; a *Conn is an index into it
    stmt,       \* the Stmt returned by the latest Prepare
    heap,       \* the heap of Rows objects; a *Rows is an index into it
    dest,       \* the destination buffer handed to the latest Rows.Next
    ret,        \* what the latest call returned (and the callback calls it made)
    panicked,   \* TRUE once a call has panicked: the program has stopped
    regs,       \* history: per Conn and key, the arguments of the latest registration
    rowsHist,   \* history: per Rows, the arguments it was made from and its calls so far
    opened,     \* history: the Open calls since the Driver was last configured
    calls,      \* per goroutine, the Open call it is making: its position and locals
    qb, qv      \* a query text and a variant of it, differing in whitespace and case

vars == <<driver, conns, stmt, heap, dest, ret, panicked, regs,
          rowsHist, opened, calls, qb, qv>>

connVars == <<conns, stmt, regs>>
rowsVars == <<heap, dest, rowsHist>>
driverVars == <<driver, opened, calls>>
textVars == <<qb, qv>>

----------------------------------------------------------------------------
(* Bounds of the model.                                                    *)

\* the longest query text
MaxQueryLen == 1
\* the most records of a CSV table
MaxRecords == 2
\* the most Next calls made on a Rows after the one that exhausted it
MaxExtraNext == 2
\* the most Conn objects made
MaxConns == 2
\* the longest variant of a query text
MaxVariantLen == 2
\* the most Open calls between two configurations of the Driver
MaxOpens == 3
\* the goroutines that call Open at once
MaxGoroutines == 2

----------------------------------------------------------------------------
(* Values.                                                                 *)

\* a nil driver.Rows, *Conn or *Rows
NilRef == 0
\* a nil error
NilErr == [kind |-> "nil"]
\* a nil func value
NilFunc == "nil"
\* io.EOF
EOF == [kind |-> "io.EOF"]
\* an error value made by the test
TestErr(e) == [kind |-> "test", id |-> e]
\* errors.New(msg)
ErrorsNew(msg) == [kind |-> "errorString", msg |-> msg]

\* the error values the test registers or its callback returns
TestErrs == {TestErr("E1"), TestErr("E2")}
\* the driver.Rows values the test registers: references, or nil
RowsRefs == {1, 2}

\* the empty map
EmptyMap == [k \in {} |-> NilRef]
\* m[k] = v
MapPut(m, k, v) == [x \in DOMAIN m \cup {k} |-> IF x = k THEN v ELSE m[x]]

\* all sequences over S of length at most n
RECURSIVE SeqsUpTo(_, _)
SeqsUpTo(S, n) ==
    IF n = 0 THEN {<<>>}
    ELSE LET shorter == SeqsUpTo(S, n - 1)
         IN  shorter \cup {Append(s, c) : s \in {t \in shorter : Len(t) = n - 1}, c \in S}

\* the characters of the query texts of the registry specification
QueryChars == {"a", "A", " "}
Queries == SeqsUpTo(QueryChars, MaxQueryLen)

----------------------------------------------------------------------------
(* Conn.getQueryHash: whitespace removed, lowercased, SHA-1.               *)

\* the vertical tab U+000B, one character, written as its escape
VerticalTab == "\\v"

\* the class \s of Go's regexp: [\t\n\f\r ]
ReSpace == {" ", "\t", "\n", "\f", "\r"}

\* whitespaceRegexp.ReplaceAllString(s, "")
RECURSIVE ReplaceAllWhitespace(_)
ReplaceAllWhitespace(s) ==
    IF s = <<>> THEN <<>>
    ELSE IF Head(s) \in ReSpace THEN ReplaceAllWhitespace(Tail(s))
    ELSE <<Head(s)>> \o ReplaceAllWhitespace(Tail(s))

UpperLetters == <<"A", "B", "C", "D", "E", "F", "G", "H", "I", "J", "K", "L", "M",
                  "N", "O", "P", "Q", "R", "S", "T", "U", "V", "W", "X", "Y", "Z">>
LowerLetters == <<"a", "b", "c", "d", "e", "f", "g", "h", "i", "j", "k", "l", "m",
                  "n", "o", "p", "q", "r", "s", "t", "u", "v", "w", "x", "y", "z">>

LowerChar(c) ==
    IF \E i \in DOMAIN UpperLetters : UpperLetters[i] = c
    THEN LowerLetters[CHOOSE i \in DOMAIN UpperLetters : UpperLetters[i] = c]
    ELSE c

\* strings.ToLower
ToLower(s) == [i \in DOMAIN s |-> LowerChar(s[i])]

\* The first three bytes, as a big-endian number, of the SHA-1 digest of every
\* string over {a, A, U+000B} of length at most 3 and over {a, A} of length 4:
\* the strings the model hashes. They are pairwise distinct.
Sha1Table ==
       <<>> :> 14301603
    @@ <<"a">> :> 8845284
    @@ <<"A">> :> 7195980
    @@ <<VerticalTab>> :> 425296
    @@ <<"a", "a">> :> 14731523
    @@ <<"a", "A">> :> 11495703
    @@ <<"a", VerticalTab>> :> 1363228
    @@ <<"A", "a">> :> 2900382
    @@ <<"A", "A">> :> 8395828
    @@ <<"A", VerticalTab>> :> 11133085
    @@ <<VerticalTab, "a">> :> 16654568
    @@ <<VerticalTab, "A">> :> 16374876
    @@ <<VerticalTab, VerticalTab>> :> 5410613
    @@ <<"a", "a", "a">> :> 8266765
    @@ <<"a", "a", "A">> :> 3882917
    @@ <<"a", "a", VerticalTab>> :> 9738908
    @@ <<"a", "A", "a">> :> 14686371
    @@ <<"a", "A", "A">> :> 9190502
    @@ <<"a", "A", VerticalTab>> :> 48553
    @@ <<"a", VerticalTab, "a">> :> 9538324
    @@ <<"a", VerticalTab, "A">> :> 1571021
    @@ <<"a", VerticalTab, VerticalTab>> :> 14411117
    @@ <<"A", "a", "a">> :> 16220788
    @@ <<"A", "a", "A">> :> 13856524
    @@ <<"A", "a", VerticalTab>> :> 6716909
    @@ <<"A", "A", "a">> :> 2022009
    @@ <<"A", "A", "A">> :> 6319814
    @@ <<"A", "A", VerticalTab>> :> 14419876
    @@ <<"A", VerticalTab, "a">> :> 5826260
    @@ <<"A", VerticalTab, "A">> :> 13971942
    @@ <<"A", VerticalTab, VerticalTab>> :> 14837288
    @@ <<VerticalTab, "a", "a">> :> 15878160
    @@ <<VerticalTab, "a", "A">> :> 1242574
    @@ <<VerticalTab, "a", VerticalTab>> :> 3557420
    @@ <<VerticalTab, "A", "a">> :> 10906183
    @@ <<VerticalTab, "A", "A">> :> 10273920
    @@ <<VerticalTab, "A", VerticalTab>> :> 15726814
    @@ <<VerticalTab, VerticalTab, "a">> :> 4149253
    @@ <<VerticalTab, VerticalTab, "A">> :> 16652512
    @@ <<VerticalTab, VerticalTab, VerticalTab>> :> 8784098
    @@ <<"a", "a", "a", "a">> :> 7391361
    @@ <<"a", "a", "a", "A">> :> 12636456
    @@ <<"a", "a", "A", "a">> :> 7730370
    @@ <<"a", "a", "A", "A">> :> 1274804
    @@ <<"a", "A", "a", "a">> :> 2429563
    @@ <<"a", "A", "a", "A">> :> 3088456
    @@ <<"a", "A", "A", "a">> :> 6725488
    @@ <<"a", "A", "A", "A">> :> 15523215
    @@ <<"A", "a", "a", "a">> :> 3028950
    @@ <<"A", "a", "a", "A">> :> 3266683
    @@ <<"A", "a", "A", "a">> :> 13812138
    @@ <<"A", "a", "A", "A">> :> 1733851
    @@ <<"A", "A", "a", "a">> :> 6823730
    @@ <<"A", "A", "a", "A">> :> 15234002
    @@ <<"A", "A", "A", "a">> :> 11837745
    @@ <<"A", "A", "A", "A">> :> 14831905

\* sha1.New(); io.WriteString(h, s); string(h.Sum(nil))
Sha1(s) == Sha1Table[s]

getQueryHash(query) == Sha1(ToLower(ReplaceAllWhitespace(query)))

----------------------------------------------------------------------------
(* The values calls return.                                                *)

\* op: the call; q: the query it was given; ref: the Conn, Rows or Stmt result;
\* err: the error; cb: the arguments of the callback calls it made; prev: for a
\* registration, the kind of the entry it replaced; val: a list returned
Ret(op, q, ref, err, cb) ==
    [op |-> op, q |-> q, ref |-> ref, err |-> err, cb |-> cb, prev |-> "none",
     val |-> <<>>]
Returned(op) == Ret(op, <<>>, NilRef, NilErr, <<>>)

\* &Stmt{result: result, err: err}; via: what made it (the callback, a stub, or
\* neither)
Stmt(result, err, via) == [valid |-> TRUE, result |-> result, err |-> err, via |-> via]
NoStmt == [valid |-> FALSE, result |-> NilRef, err |-> NilErr, via |-> "none"]

----------------------------------------------------------------------------
(* Conn.                                                                   *)

NewConn == [queries |-> EmptyMap, queryFunc |-> NilFunc]

\* Query{result: result, err: err}
Query(result, err) == [result |-> result, err |-> err]

\* The query functions the test installs: each is a function of the text it is
\* given, and tells a raw text from its normalised form.
QueryFuncs == {"bySpace", "byLength"}

HasSpace(s) == \E i \in DOMAIN s : s[i] \in ReSpace

\* f(query), for f a query function of the test
CallQueryFunc(f, query) ==
    CASE f = "bySpace"  -> IF HasSpace(query) THEN Query(NilRef, TestErr("E1"))
                           ELSE Query(1, NilErr)
      [] f = "byLength" -> IF Len(query) % 2 = 0 THEN Query(2, TestErr("E2"))
                           ELSE Query(NilRef, TestErr("E2"))

NotStubbedMsg == <<"Q", "u", "e", "r", "y", " ", "n", "o", "t", " ",
                   "s", "t", "u", "b", "b", "e", "d", ":", " ">>

\* the kind of the registration the key holds, for the history
PrevKind(c, key) == IF key \in DOMAIN regs[c] THEN regs[c][key].kind ELSE "none"

SetQueryFunc(c, f) ==
    /\ ~panicked
    /\ conns' = [conns EXCEPT ![c].queryFunc = f]
    /\ ret' = Returned("SetQueryFunc")
    /\ UNCHANGED <<stmt, regs, rowsVars, driverVars, textVars, panicked>>

\* StubQuery merging into the entry it finds instead of replacing it
StubQueryEntryMerging(queries, query, result) ==
    LET key == getQueryHash(query)
    IN  MapPut(queries, key,
               Query(result, IF key \in DOMAIN queries THEN queries[key].err ELSE NilErr))

\* StubQuery making a registry of the one entry
StubQueryEntryPruning(queries, query, result) ==
    MapPut(EmptyMap, getQueryHash(query), Query(result, NilErr))

\* c.queries[c.getQueryHash(query)] = Query{result: result}
StubQueryEntry(queries, query, result) ==
    MapPut(queries, getQueryHash(query), Query(result, NilErr))

StubQuery(c, query, result) ==
    /\ ~panicked
    /\ conns' = [conns EXCEPT ![c].queries = StubQueryEntry(@, query, result)]
    /\ regs' = [regs EXCEPT ![c] =
                    MapPut(@, getQueryHash(query),
                           [kind |-> "result", rows |-> result, err |-> NilErr])]
    /\ ret' = [Returned("StubQuery") EXCEPT !.prev = PrevKind(c, getQueryHash(query))]
    /\ UNCHANGED <<stmt, rowsVars, driverVars, textVars, panicked>>

\* StubQueryError merging into the entry it finds instead of replacing it
StubQueryErrorEntryMerging(queries, query, err) ==
    LET key == getQueryHash(query)
    IN  MapPut(queries, key,
               Query(IF key \in DOMAIN queries THEN queries[key].result ELSE NilRef, err))

\* c.queries[c.getQueryHash(query)] = Query{err: err}
StubQueryErrorEntry(queries, query, err) ==
    MapPut(queries, getQueryHash(query), Query(NilRef, err))

StubQueryError(c, query, err) ==
    /\ ~panicked
    /\ conns' = [conns EXCEPT ![c].queries = StubQueryErrorEntry(@, query, err)]
    /\ regs' = [regs EXCEPT ![c] =
                    MapPut(@, getQueryHash(query),
                           [kind |-> "error", rows |-> NilRef, err |-> err])]
    /\ ret' = [Returned("StubQueryError") EXCEPT !.prev = PrevKind(c, getQueryHash(query))]
    /\ UNCHANGED <<stmt, rowsVars, driverVars, textVars, panicked>>

\* the message built from the normalised query
NotStubbedErrorNormalised(query) ==
    ErrorsNew(NotStubbedMsg \o ToLower(ReplaceAllWhitespace(query)))

\* errors.New("Query not stubbed: " + query)
NotStubbedError(query) == ErrorsNew(NotStubbedMsg \o query)

\* Prepare looking in the registry before calling the query function
PrepareCallRegistryFirst(conn, query) ==
    IF getQueryHash(query) \in DOMAIN conn.queries
    THEN LET q == conn.queries[getQueryHash(query)]
         IN  [stmt |-> Stmt(q.result, q.err, "stub"), err |-> NilErr, cb |-> <<>>]
    ELSE IF conn.queryFunc # NilFunc
    THEN LET r == CallQueryFunc(conn.queryFunc, query)
         IN  [stmt |-> Stmt(r.result, r.err, "func"), err |-> NilErr, cb |-> <<query>>]
    ELSE [stmt |-> Stmt(NilRef, NilErr, "none"),
          err |-> ErrorsNew(NotStubbedMsg \o query), cb |-> <<>>]

\* Prepare returning the error of the outcome it found as its own
PrepareCallSurfacingError(conn, query) ==
    IF conn.queryFunc # NilFunc
    THEN LET r == CallQueryFunc(conn.queryFunc, query)
         IN  [stmt |-> Stmt(r.result, r.err, "func"), err |-> r.err, cb |-> <<query>>]
    ELSE IF getQueryHash(query) \in DOMAIN conn.queries
    THEN LET q == conn.queries[getQueryHash(query)]
         IN  [stmt |-> Stmt(q.result, q.err, "stub"), err |-> q.err, cb |-> <<>>]
    ELSE [stmt |-> Stmt(NilRef, NilErr, "none"),
          err |-> ErrorsNew(NotStubbedMsg \o query), cb |-> <<>>]

\* What Prepare(query) returns on conn: the Stmt, the error, and the calls of the
\* query function it made.
PrepareCall(conn, query) ==
    IF conn.queryFunc # NilFunc
    THEN LET r == CallQueryFunc(conn.queryFunc, query)
         IN  [stmt |-> Stmt(r.result, r.err, "func"), err |-> NilErr, cb |-> <<query>>]
    ELSE IF getQueryHash(query) \in DOMAIN conn.queries
    THEN LET q == conn.queries[getQueryHash(query)]
         IN  [stmt |-> Stmt(q.result, q.err, "stub"), err |-> NilErr, cb |-> <<>>]
    ELSE [stmt |-> Stmt(NilRef, NilErr, "none"), err |-> NotStubbedError(query),
          cb |-> <<>>]

Prepare(c, query) ==
    /\ ~panicked
    /\ LET r == PrepareCall(conns[c], query)
       IN  /\ stmt' = r.stmt
           /\ ret' = Ret("Prepare", query, c, r.err, r.cb)
    /\ UNCHANGED <<conns, regs, rowsVars, driverVars, textVars, panicked>>

\* the calls of Conn, Stmt and Tx that return fixed values
NoOps == {"Conn.Close", "Conn.Begin", "Conn.Exec", "Stmt.Close", "Stmt.NumInput",
          "Stmt.Exec", "Tx.Commit", "Tx.Rollback"}

\* a Commit or Rollback after a Commit or Rollback returning an error, as
\* database/sql does for a Tx that is done
NoOpCallTxDone(op) ==
    IF op \in {"Tx.Commit", "Tx.Rollback"} /\ ret.op \in {"Tx.Commit", "Tx.Rollback"}
    THEN ErrorsNew(<<"d", "o", "n", "e">>)
    ELSE NilErr

\* the error the call returns: nil, whatever the state and the arguments
NoOpCall(op) == NilErr

NoOp(op) ==
    /\ ~panicked
    /\ op \in {"Stmt.Close", "Stmt.NumInput", "Stmt.Exec"} => stmt.valid
    /\ ret' = [Returned(op) EXCEPT !.err = NoOpCall(op)]
    /\ UNCHANGED <<connVars, rowsVars, driverVars, textVars, panicked>>

\* the argument lists Stmt.Query is given
ArgLists == {<<>>, <<"x">>}

\* Query handing out another Rows, a copy of the one the Stmt holds
StmtQueryCallCopy(s, args) ==
    Query(IF s.result # NilRef THEN s.result + 1 ELSE NilRef, s.err)

\* return s.result, s.err
StmtQueryCall(s, args) == Query(s.result, s.err)

StmtQuery(args) ==
    /\ ~panicked
    /\ stmt.valid
    /\ LET r == StmtQueryCall(stmt, args)
       IN  ret' = Ret("Stmt.Query", <<>>, r.result, r.err, <<>>)
    /\ UNCHANGED <<connVars, rowsVars, driverVars, textVars, panicked>>

----------------------------------------------------------------------------
(* Text: strings.TrimSpace, the time pattern, time.Parse, csv.Reader.      *)

\* unicode.IsSpace, over the characters of the model
UnicodeSpace == {" ", "\t", "\n", "\f", "\r", VerticalTab}

RECURSIVE TrimLeft(_)
TrimLeft(s) ==
    IF s # <<>> /\ Head(s) \in UnicodeSpace THEN TrimLeft(Tail(s)) ELSE s

RECURSIVE TrimRight(_)
TrimRight(s) ==
    IF s # <<>> /\ s[Len(s)] \in UnicodeSpace
    THEN TrimRight(SubSeq(s, 1, Len(s) - 1))
    ELSE s

\* strings.TrimSpace
TrimSpace(s) == TrimRight(TrimLeft(s))

Digits == <<"0", "1", "2", "3", "4", "5", "6", "7", "8", "9">>
IsDigit(c) == \E i \in DOMAIN Digits : Digits[i] = c
DigitVal(c) == (CHOOSE i \in DOMAIN Digits : Digits[i] = c) - 1

IsDigitAt(v, i) == i \in DOMAIN v /\ IsDigit(v[i])
IsCharAt(v, i, c) == i \in DOMAIN v /\ v[i] = c
\* the number written by the n digits of v from position i
RECURSIVE Num(_, _, _)
Num(v, i, n) == IF n = 0 THEN 0 ELSE Num(v, i, n - 1) * 10 + DigitVal(v[i + n - 1])

\* timeRegex.MatchString(v): ^\d{4}-\d{2}-\d{2}(\s\d{2}:\d{2}:\d{2})?$
TimeRegexMatch(v) ==
    /\ Len(v) \in {10, 19}
    /\ \A i \in {1, 2, 3, 4, 6, 7, 9, 10} : IsDigit(v[i])
    /\ v[5] = "-" /\ v[8] = "-"
    /\ Len(v) = 19 =>
        /\ v[11] \in ReSpace
        /\ \A i \in {12, 13, 15, 16, 18, 19} : IsDigit(v[i])
        /\ v[14] = ":" /\ v[17] = ":"

\* time.Time
Time(Y, M, D, h, m, sec) ==
    [kind |-> "time", year |-> Y, month |-> M, day |-> D,
     hour |-> h, min |-> m, sec |-> sec]
\* time.Time{}: January 1, year 1, 00:00:00 UTC
ZeroTime == Time(1, 1, 1, 0, 0, 0)

IsLeap(Y) == Y % 4 = 0 /\ (Y % 100 # 0 \/ Y % 400 = 0)
DaysIn(M, Y) ==
    IF M = 2 THEN (IF IsLeap(Y) THEN 29 ELSE 28)
    ELSE IF M \in {4, 6, 9, 11} THEN 30 ELSE 31

\* the first position of v from i on that holds no space
RECURSIVE CutSpace(_, _)
CutSpace(v, i) == IF IsCharAt(v, i, " ") THEN CutSpace(v, i + 1) ELSE i

\* time.Parse("2006-01-02 15:04:05", v): a four-digit year, "-", a two-digit
\* month, "-", a two-digit day, a run of spaces, an hour of one or two digits,
\* ":", a two-digit minute, ":", a two-digit second, and nothing after; every
\* field in range. The result is the time and whether an error was returned;
\* with an error the time is time.Time{}.
TimeParse(v) ==
    LET bad == [ok |-> FALSE, t |-> ZeroTime]
        h0  == CutSpace(v, 11)
        h1  == IF IsDigitAt(v, h0 + 1) THEN h0 + 1 ELSE h0
    IN  IF ~(/\ \A i \in {1, 2, 3, 4, 6, 7, 9, 10} : IsDigitAt(v, i)
             /\ IsCharAt(v, 5, "-") /\ IsCharAt(v, 8, "-"))
        THEN bad
        ELSE IF Num(v, 6, 2) < 1 \/ Num(v, 6, 2) > 12
        THEN bad
        ELSE IF Len(v) >= 11 /\ v[11] # " "
        THEN bad
        ELSE IF ~(/\ IsDigitAt(v, h0)
                  /\ IsCharAt(v, h1 + 1, ":")
                  /\ IsDigitAt(v, h1 + 2) /\ IsDigitAt(v, h1 + 3)
                  /\ IsCharAt(v, h1 + 4, ":")
                  /\ IsDigitAt(v, h1 + 5) /\ IsDigitAt(v, h1 + 6)
                  /\ Len(v) = h1 + 6)
        THEN bad
        ELSE LET Y == Num(v, 1, 4)
                 M == Num(v, 6, 2)
                 D == Num(v, 9, 2)
                 h == Num(v, h0, h1 - h0 + 1)
                 m == Num(v, h1 + 2, 2)
                 sec == Num(v, h1 + 5, 2)
             IN  IF h >= 24 \/ m >= 60 \/ sec >= 60 \/ D < 1 \/ D > DaysIn(M, Y)
                 THEN bad
                 ELSE [ok |-> TRUE, t |-> Time(Y, M, D, h, m, sec)]

\* the pieces of s between the occurrences of the character sep
RECURSIVE Split(_, _)
Split(s, sep) ==
    IF \E i \in DOMAIN s : s[i] = sep
    THEN LET i == CHOOSE i \in DOMAIN s : s[i] = sep /\ \A j \in 1..(i - 1) : s[j] # sep
         IN  <<SubSeq(s, 1, i - 1)>> \o Split(SubSeq(s, i + 1, Len(s)), sep)
    ELSE <<s>>

\* the non-empty lines among seq, in order
RECURSIVE SelectLines(_)
SelectLines(seq) ==
    IF seq = <<>> THEN <<>>
    ELSE IF Head(seq) = <<>> THEN SelectLines(Tail(seq))
    ELSE <<Head(seq)>> \o SelectLines(Tail(seq))

\* The records csv.NewReader(text).Read() returns before its first error, for a
\* text with no double quote and no carriage return: one record per non-empty
\* line, its fields split at the commas; FieldsPerRecord is 0, so the first
\* record sets the number of fields and a record with another number is
\* returned with ErrFieldCount.
CsvRecords(text) ==
    LET lines == SelectLines(Split(text, "\n"))
        recs  == [i \in DOMAIN lines |-> Split(lines[i], ",")]
        good  == {n \in 0..Len(recs) : \A i \in 1..n : Len(recs[i]) = Len(recs[1])}
        n     == CHOOSE n \in good : \A m \in good : m <= n
    IN  SubSeq(recs, 1, n)

----------------------------------------------------------------------------
(* Rows and RowsFromCSVString.                                             *)

\* a nil driver.Value
NilValue == [kind |-> "nil"]
\* a driver.Value holding a string
StringValue(v) == [kind |-> "string", s |-> v]

\* the cell RowsFromCSVString makes of the field v of a record
CellValue(field) ==
    LET v == TrimSpace(field)
    IN  IF TimeRegexMatch(v) THEN TimeParse(v).t ELSE StringValue(v)

\* the row RowsFromCSVString makes of a record: make([]driver.Value,
\* len(columns)), then row[i] set for every field of the record
RowOf(columns, rec) ==
    [j \in 1..Len(columns) |-> IF j <= Len(rec) THEN CellValue(rec[j]) ELSE NilValue]

\* RowsFromCSVString(columns, s): the Rows, or a panic (row[i] with i out of
\* range) when a record has more fields than there are columns
RowsFromCSVStringCall(columns, s) ==
    LET recs == CsvRecords(TrimSpace(s))
    IN  IF \E i \in DOMAIN recs : Len(recs[i]) > Len(columns)
        THEN [panic |-> TRUE]
        ELSE [panic |-> FALSE,
              rows |-> [closed |-> FALSE, columns |-> columns, pos |-> 0,
                        rows |-> [i \in DOMAIN recs |-> RowOf(columns, recs[i])]]]

RowsFromCSVString(columns, s) ==
    /\ ~panicked
    /\ LET r == RowsFromCSVStringCall(columns, s)
       IN  IF r.panic
           THEN /\ panicked' = TRUE
                /\ ret' = [Returned("RowsFromCSVString") EXCEPT !.q = s, !.val = columns]
                /\ UNCHANGED <<heap, rowsHist>>
           ELSE /\ heap' = Append(heap, r.rows)
                /\ rowsHist' = Append(rowsHist, [columns |-> columns, s |-> s,
                                                 closeCalled |-> FALSE, log |-> <<>>])
                /\ ret' = [Returned("RowsFromCSVString") EXCEPT
                              !.q = s, !.val = columns, !.ref = Len(heap) + 1]
                /\ UNCHANGED panicked
    /\ UNCHANGED <<dest, connVars, driverVars, textVars>>

\* Next reporting the end of the data one call early
RowsNextCallOffByOne(rs, buf) ==
    LET pos == rs.pos + 1
    IN  IF pos >= Len(rs.rows)
        THEN [rs |-> [rs EXCEPT !.pos = pos, !.closed = TRUE], dest |-> buf,
              err |-> EOF, idx |-> 0, panic |-> FALSE]
        ELSE LET row == rs.rows[pos]
                 out == [i \in DOMAIN buf |-> IF i <= Len(row) THEN row[i] ELSE buf[i]]
             IN  [rs |-> [rs EXCEPT !.pos = pos], dest |-> out,
                  err |-> NilErr, idx |-> pos, panic |-> Len(row) > Len(buf)]

\* Next delivering the first row at every call
RowsNextCallFirstRow(rs, buf) ==
    LET pos == rs.pos + 1
    IN  IF pos > Len(rs.rows)
        THEN [rs |-> [rs EXCEPT !.pos = pos, !.closed = TRUE], dest |-> buf,
              err |-> EOF, idx |-> 0, panic |-> FALSE]
        ELSE LET row == rs.rows[1]
                 out == [i \in DOMAIN buf |-> IF i <= Len(row) THEN row[i] ELSE buf[i]]
             IN  [rs |-> [rs EXCEPT !.pos = pos], dest |-> out,
                  err |-> NilErr, idx |-> pos, panic |-> Len(row) > Len(buf)]

\* rs.Next(buf) for a buffer buf: the Rows after the call, the buffer after it,
\* the error returned, the row delivered (0: none), and whether dest[i] was out
\* of range
RowsNextCall(rs, buf) ==
    LET pos == rs.pos + 1
    IN  IF pos > Len(rs.rows)
        THEN [rs |-> [rs EXCEPT !.pos = pos, !.closed = TRUE], dest |-> buf,
              err |-> EOF, idx |-> 0, panic |-> FALSE]
        ELSE LET row == rs.rows[pos]
                 out == [i \in DOMAIN buf |-> IF i <= Len(row) THEN row[i] ELSE buf[i]]
             IN  [rs |-> [rs EXCEPT !.pos = pos], dest |-> out,
                  err |-> NilErr, idx |-> pos, panic |-> Len(row) > Len(buf)]

\* the buffer of n values the caller hands to Next: the one of the call before
\* when it has that length, else a new one
Buffer(n) == IF Len(dest) = n THEN dest ELSE [i \in 1..n |-> NilValue]

RowsNext(r, n) ==
    /\ ~panicked
    /\ heap[r].pos < Len(heap[r].rows) + 1 + MaxExtraNext
    /\ LET c == RowsNextCall(heap[r], Buffer(n))
       IN  /\ heap' = [heap EXCEPT ![r] = c.rs]
           /\ dest' = c.dest
           /\ panicked' = c.panic
           /\ rowsHist' = [rowsHist EXCEPT ![r].log =
                  Append(@, [err |-> c.err, idx |-> c.idx, panic |-> c.panic])]
           /\ ret' = [Returned("Rows.Next") EXCEPT !.ref = r, !.err = c.err, !.val = <<n>>]
    /\ UNCHANGED <<connVars, driverVars, textVars>>

\* rs.Columns()
RowsColumnsCall(rs) == rs.columns

RowsColumns(r) ==
    /\ ~panicked
    /\ ret' = [Returned("Rows.Columns") EXCEPT !.ref = r, !.val = RowsColumnsCall(heap[r])]
    /\ UNCHANGED <<rowsVars, connVars, driverVars, textVars, panicked>>

\* the Err of a Rows that is closed returning io.EOF
RowsErrCallAtEnd(rs) == IF rs.closed THEN EOF ELSE NilErr

\* rs.Err()
RowsErrCall(rs) == NilErr

RowsErr(r) ==
    /\ ~panicked
    /\ ret' = [Returned("Rows.Err") EXCEPT !.ref = r, !.err = RowsErrCall(heap[r])]
    /\ UNCHANGED <<rowsVars, connVars, driverVars, textVars, panicked>>

\* Close releasing what the Rows holds
RowsCloseCallReleasing(rs) == [rs EXCEPT !.columns = <<>>, !.rows = <<>>]

\* Close putting the cursor back before the first row
RowsCloseCallRewinding(rs) == [rs EXCEPT !.pos = 0]

\* Close setting the closed flag
RowsCloseCallClosing(rs) == [rs EXCEPT !.closed = TRUE]

\* rs.Close(): the Rows after the call
RowsCloseCall(rs) == rs

RowsClose(r) ==
    /\ ~panicked
    /\ heap' = [heap EXCEPT ![r] = RowsCloseCall(@)]
    /\ rowsHist' = [rowsHist EXCEPT ![r].closeCalled = TRUE]
    /\ ret' = [Returned("Rows.Close") EXCEPT !.ref = r]
    /\ UNCHANGED <<dest, connVars, driverVars, textVars, panicked>>

----------------------------------------------------------------------------
(* Driver.                                                                 *)

\* the data source names Open is given
Dsns == {"db", "bad"}

\* the open functions the test installs
OpenFuncs == {"byDsn"}

\* f(dsn), for f an open function of the test: whether it makes a Conn, and the
\* error it returns
CallOpenFunc(f, dsn) ==
    IF dsn = "bad" THEN [new |-> FALSE, err |-> TestErr("E1")]
    ELSE [new |-> TRUE, err |-> NilErr]

\* Open making a Conn at every call in place of keeping the first
DriverOpenCallAlwaysNew(d, dsn, n) ==
    IF d.open # NilFunc
    THEN LET r == CallOpenFunc(d.open, dsn)
         IN  [driver |-> d, conn |-> IF r.new THEN n + 1 ELSE NilRef, err |-> r.err,
              created |-> r.new, cb |-> <<dsn>>]
    ELSE [driver |-> [d EXCEPT !.conn = n + 1], conn |-> n + 1, err |-> NilErr,
          created |-> TRUE, cb |-> <<>>]

\* Open returning the shared Conn when the Driver holds one, and calling the
\* open function only when it holds none
DriverOpenCallSharedFirst(d, dsn, n) ==
    IF d.conn # NilRef
    THEN [driver |-> d, conn |-> d.conn, err |-> NilErr, created |-> FALSE, cb |-> <<>>]
    ELSE IF d.open # NilFunc
    THEN LET r == CallOpenFunc(d.open, dsn)
         IN  [driver |-> d, conn |-> IF r.new THEN n + 1 ELSE NilRef, err |-> r.err,
              created |-> r.new, cb |-> <<dsn>>]
    ELSE [driver |-> [d EXCEPT !.conn = n + 1], conn |-> n + 1, err |-> NilErr,
          created |-> TRUE, cb |-> <<>>]

\* d.Open(dsn) with n Conn objects made so far: the Driver after the call, the
\* Conn and the error returned, whether a Conn was made, and the calls of the
\* open function
DriverOpenCall(d, dsn, n) ==
    IF d.open # NilFunc
    THEN LET r == CallOpenFunc(d.open, dsn)
         IN  [driver |-> d, conn |-> IF r.new THEN n + 1 ELSE NilRef, err |-> r.err,
              created |-> r.new, cb |-> <<dsn>>]
    ELSE IF d.conn = NilRef
    THEN [driver |-> [d EXCEPT !.conn = n + 1], conn |-> n + 1, err |-> NilErr,
          created |-> TRUE, cb |-> <<>>]
    ELSE [driver |-> d, conn |-> d.conn, err |-> NilErr, created |-> FALSE, cb |-> <<>>]

DriverOpen(dsn) ==
    /\ ~panicked
    /\ Len(opened) < MaxOpens
    /\ LET r == DriverOpenCall(driver, dsn, Len(conns))
       IN  /\ r.created => Len(conns) < MaxConns
           /\ driver' = r.driver
           /\ conns' = IF r.created THEN Append(conns, NewConn) ELSE conns
           /\ regs' = IF r.created THEN Append(regs, EmptyMap) ELSE regs
           /\ opened' = Append(opened, [conn |-> r.conn, created |-> r.created,
                                        before |-> driver.conn])
           /\ ret' = Ret("Driver.Open", <<>>, r.conn, r.err, r.cb)
    /\ UNCHANGED <<stmt, calls, rowsVars, textVars, panicked>>

SetOpenFunc(f) ==
    /\ ~panicked
    /\ driver' = [driver EXCEPT !.open = f]
    /\ opened' = <<>>
    /\ ret' = Returned("Driver.SetOpenFunc")
    /\ UNCHANGED <<calls, connVars, rowsVars, textVars, panicked>>

SetConnection(c) ==
    /\ ~panicked
    /\ driver' = [driver EXCEPT !.conn = c]
    /\ opened' = <<>>
    /\ ret' = Returned("Driver.SetConnection")
    /\ UNCHANGED <<calls, connVars, rowsVars, textVars, panicked>>

\* the test calling NewConn()
TestNewConn ==
    /\ ~panicked
    /\ Len(conns) < MaxConns
    /\ conns' = Append(conns, NewConn)
    /\ regs' = Append(regs, EmptyMap)
    /\ ret' = [Returned("NewConn") EXCEPT !.ref = Len(conns) + 1]
    /\ UNCHANGED <<stmt, rowsVars, driverVars, textVars, panicked>>

----------------------------------------------------------------------------
(* Driver.Open called by several goroutines with no lock: each statement   *)
(* of Open that reads or writes d.conn is a step of its own.               *)

Goroutines == 1..MaxGoroutines

\* an Open call not begun: pc is the statement it is at, sawNil what
\* d.conn == nil gave it, conn the Conn it returned, raced whether another call
\* was being made while it was
IdleCall == [pc |-> "idle", sawNil |-> FALSE, conn |-> NilRef, raced |-> FALSE]

InFlight(g) == calls[g].pc \in {"check", "create", "return"}

\* the test d.conn == nil taken as true whatever d.conn holds
OpenSeesNilAlways(d) == TRUE

\* d.conn == nil
OpenSeesNil(d) == d.conn = NilRef

\* goroutine g calls Open: d.open is nil
OpenStart(g) ==
    /\ ~panicked
    /\ calls[g].pc = "idle"
    /\ driver.open = NilFunc
    /\ LET others == {h \in Goroutines \ {g} : InFlight(h)}
       IN  calls' = [h \in Goroutines |->
                        IF h = g THEN [calls[g] EXCEPT !.pc = "check", !.raced = others # {}]
                        ELSE IF h \in others THEN [calls[h] EXCEPT !.raced = TRUE]
                        ELSE calls[h]]
    /\ UNCHANGED <<driver, opened, ret, connVars, rowsVars, textVars, panicked>>

\* if d.conn == nil
OpenCheck(g) ==
    /\ ~panicked
    /\ calls[g].pc = "check"
    /\ calls' = [calls EXCEPT ![g].sawNil = OpenSeesNil(driver),
                              ![g].pc = IF OpenSeesNil(driver) THEN "create" ELSE "return"]
    /\ UNCHANGED <<driver, opened, ret, connVars, rowsVars, textVars, panicked>>

\* d.conn = NewConn()
OpenCreate(g) ==
    /\ ~panicked
    /\ calls[g].pc = "create"
    /\ conns' = Append(conns, NewConn)
    /\ regs' = Append(regs, EmptyMap)
    /\ driver' = [driver EXCEPT !.conn = Len(conns) + 1]
    /\ calls' = [calls EXCEPT ![g].pc = "return"]
    /\ UNCHANGED <<opened, ret, stmt, rowsVars, textVars, panicked>>

\* return d.conn, nil
OpenReturn(g) ==
    /\ ~panicked
    /\ calls[g].pc = "return"
    /\ calls' = [calls EXCEPT ![g].pc = "done", ![g].conn = driver.conn]
    /\ ret' = Ret("Driver.Open", <<>>, driver.conn, NilErr, <<>>)
    /\ UNCHANGED <<driver, opened, connVars, rowsVars, textVars, panicked>>

----------------------------------------------------------------------------
(* Variants of a query text: the text qv is made from qb by inserting and   *)
(* removing white space and changing the case of letters.                  *)

\* the characters of the texts
TextChars == {"a", "A", " ", VerticalTab}
Texts == SeqsUpTo(TextChars, MaxVariantLen)

IsUpper(c) == \E i \in DOMAIN UpperLetters : UpperLetters[i] = c
IsLower(c) == \E i \in DOMAIN LowerLetters : LowerLetters[i] = c
\* the letter c in the other case
SwapCase(c) ==
    IF IsUpper(c) THEN LowerChar(c)
    ELSE UpperLetters[CHOOSE i \in DOMAIN LowerLetters : LowerLetters[i] = c]

\* a white space character w is put after the first i characters of qv
InsertWhitespace(i, w) ==
    /\ ~panicked
    /\ Len(qv) < MaxVariantLen
    /\ qv' = SubSeq(qv, 1, i) \o <<w>> \o SubSeq(qv, i + 1, Len(qv))
    /\ ret' = Returned("")
    /\ UNCHANGED <<qb, connVars, rowsVars, driverVars, panicked>>

\* the white space character at position i of qv is taken out
RemoveWhitespace(i) ==
    /\ ~panicked
    /\ qv[i] \in UnicodeSpace
    /\ qv' = SubSeq(qv, 1, i - 1) \o SubSeq(qv, i + 1, Len(qv))
    /\ ret' = Returned("")
    /\ UNCHANGED <<qb, connVars, rowsVars, driverVars, panicked>>

\* the letter at position i of qv changes case
ChangeCase(i) ==
    /\ ~panicked
    /\ IsUpper(qv[i]) \/ IsLower(qv[i])
    /\ qv' = [qv EXCEPT ![i] = SwapCase(@)]
    /\ ret' = Returned("")
    /\ UNCHANGED <<qb, connVars, rowsVars, driverVars, panicked>>

----------------------------------------------------------------------------
(* The registry specification: one Conn made by NewConn, and every call of *)
(* Conn, Stmt and Tx on it.                                                *)

Init ==
    /\ driver = [open |-> NilFunc, conn |-> NilRef]
    /\ conns = <<NewConn>>
    /\ stmt = NoStmt
    /\ heap = <<>>
    /\ dest = <<>>
    /\ ret = Returned("NewConn")
    /\ panicked = FALSE
    /\ regs = <<EmptyMap>>
    /\ rowsHist = <<>>
    /\ opened = <<>>
    /\ calls = <<>>
    /\ qb = <<>>
    /\ qv = <<>>

Next ==
    \/ \E f \in QueryFuncs \cup {NilFunc} : SetQueryFunc(1, f)
    \/ \E q \in Queries, r \in RowsRefs \cup {NilRef} : StubQuery(1, q, r)
    \/ \E q \in Queries, e \in TestErrs \cup {NilErr} : StubQueryError(1, q, e)
    \/ \E q \in Queries : Prepare(1, q)
    \/ \E args \in ArgLists : StmtQuery(args)
    \/ \E op \in NoOps : NoOp(op)

Spec == Init /\ [][Next]_vars

----------------------------------------------------------------------------
(* The Rows specification: one Rows made by RowsFromCSVString from a CSV   *)
(* text and a column list, and every call of Rows on it.                   *)

\* the pieces of seqs, with sep between them
RECURSIVE Join(_, _)
Join(seqs, sep) ==
    IF seqs = <<>> THEN <<>>
    ELSE IF Len(seqs) = 1 THEN seqs[1]
    ELSE seqs[1] \o sep \o Join(Tail(seqs), sep)

\* the CSV text of a table: a line per record, commas between its fields
CsvText(table) == Join([i \in DOMAIN table |-> Join(table[i], <<",">>)], <<"\n">>)

Date2023 == <<"2", "0", "2", "3", "-", "0", "1", "-", "0", "2">>
Clock030405 == <<"0", "3", ":", "0", "4", ":", "0", "5">>

Alice == <<"a", "l", "i", "c", "e">>
PaddedBob == <<" ", "b", "o", "b", "\t">>
FortyTwo == <<"4", "2">>
DateTime == Date2023 \o <<" ">> \o Clock030405
DateOnly == Date2023
TabDateTime == Date2023 \o <<"\t">> \o Clock030405
IsoDateTime == Date2023 \o <<"T">> \o Clock030405
BadMonth == <<"2", "0", "2", "3", "-", "1", "3", "-", "0", "2", " ">> \o Clock030405
PaddedLeapDay == <<" ", "2", "0", "2", "4", "-", "0", "2", "-", "2", "9", " ",
                   "2", "3", ":", "5", "9", ":", "5", "9", " ">>
Empty == <<>>

\* the cells of the CSV texts
AllCells == {Alice, PaddedBob, FortyTwo, DateTime, DateOnly, TabDateTime, IsoDateTime,
             BadMonth, PaddedLeapDay, Empty}
\* the cells of the tables of several records
BasicCells == {Alice, DateTime}

\* the records of one or two fields over the cells S
Records(S) == {<<c>> : c \in S} \cup {<<c, d>> : c \in S, d \in S}

\* the tables: one record over all the cells, or up to MaxRecords records over
\* the basic cells
Tables == {<<r>> : r \in Records(AllCells)} \cup SeqsUpTo(Records(BasicCells), MaxRecords)

\* the CSV texts: every table, as it is and with white space around it
CsvInputs ==
    {CsvText(t) : t \in Tables} \cup {<<" ", "\n">> \o CsvText(t) \o <<"\n", " ">> : t \in Tables}

\* the column lists
ColumnLists == {<<>>, <<"name">>, <<"name", "created_at">>}

\* the lengths of the buffers Next is handed: the number of columns, as
\* database/sql does, or one fewer
DestLens(rs) ==
    {Len(rs.columns)} \cup (IF Len(rs.columns) > 0 THEN {Len(rs.columns) - 1} ELSE {})

InitRows ==
    /\ driver = [open |-> NilFunc, conn |-> NilRef]
    /\ conns = <<>>
    /\ stmt = NoStmt
    /\ heap = <<>>
    /\ dest = <<>>
    /\ ret = Returned("")
    /\ panicked = FALSE
    /\ regs = <<>>
    /\ rowsHist = <<>>
    /\ opened = <<>>
    /\ calls = <<>>
    /\ qb = <<>>
    /\ qv = <<>>

NextRows ==
    \/ \E columns \in ColumnLists, s \in CsvInputs :
            heap = <<>> /\ RowsFromCSVString(columns, s)
    \/ \E r \in DOMAIN heap : \E n \in DestLens(heap[r]) : RowsNext(r, n)
    \/ \E r \in DOMAIN heap : RowsColumns(r)
    \/ \E r \in DOMAIN heap : RowsErr(r)
    \/ \E r \in DOMAIN heap : RowsClose(r)

SpecRows == InitRows /\ [][NextRows]_vars

----------------------------------------------------------------------------
(* The Driver specification: a Driver, the Conn objects it and the test    *)
(* make, and registrations and Prepare on them.                            *)

\* the query texts of the Driver specification
DriverQueries == {<<"a">>, <<" ", "A">>}

InitDriver ==
    /\ driver = [open |-> NilFunc, conn |-> NilRef]
    /\ conns = <<>>
    /\ stmt = NoStmt
    /\ heap = <<>>
    /\ dest = <<>>
    /\ ret = Returned("")
    /\ panicked = FALSE
    /\ regs = <<>>
    /\ rowsHist = <<>>
    /\ opened = <<>>
    /\ calls = <<>>
    /\ qb = <<>>
    /\ qv = <<>>

NextDriver ==
    \/ \E dsn \in Dsns : DriverOpen(dsn)
    \/ \E f \in OpenFuncs \cup {NilFunc} : SetOpenFunc(f)
    \/ \E c \in DOMAIN conns \cup {NilRef} : SetConnection(c)
    \/ TestNewConn
    \/ \E c \in DOMAIN conns, q \in DriverQueries : StubQuery(c, q, 1)
    \/ \E c \in DOMAIN conns, q \in DriverQueries : Prepare(c, q)
    \/ NoOp("Conn.Close")

SpecDriver == InitDriver /\ [][NextDriver]_vars

----------------------------------------------------------------------------
(* The text specification: a Conn, a query text qb and its variants qv;    *)
(* results are registered under qb, errors under qv, and both are          *)
(* prepared.                                                               *)

InitText ==
    /\ driver = [open |-> NilFunc, conn |-> NilRef]
    /\ conns = <<NewConn>>
    /\ stmt = NoStmt
    /\ heap = <<>>
    /\ dest = <<>>
    /\ ret = Returned("NewConn")
    /\ panicked = FALSE
    /\ regs = <<EmptyMap>>
    /\ rowsHist = <<>>
    /\ opened = <<>>
    /\ calls = <<>>
    /\ qb \in Texts
    /\ qv = qb

NextText ==
    \/ \E i \in 0..Len(qv), w \in TextChars \cap UnicodeSpace : InsertWhitespace(i, w)
    \/ \E i \in DOMAIN qv : RemoveWhitespace(i)
    \/ \E i \in DOMAIN qv : ChangeCase(i)
    \/ StubQuery(1, qb, 1)
    \/ StubQueryError(1, qv, TestErr("E1"))
    \/ \E q \in {qb, qv} : Prepare(1, q)

SpecText == InitText /\ [][NextText]_vars

----------------------------------------------------------------------------
(* The session specification: a Conn and a Rows of two rows, the Rows       *)
(* registered on the Conn, prepared, queried and read, with every other    *)
(* call of Conn, Stmt, Tx and Rows in between.                             *)

SessionColumns == <<"name">>
SessionCsv == CsvText(<<<<Alice>>, <<FortyTwo>>>>)

\* the query texts of the session: two of one key, one of another
SessionQueries == {<<"a">>, <<"A", " ">>, <<>>}

InitSession ==
    /\ driver = [open |-> NilFunc, conn |-> NilRef]
    /\ conns = <<NewConn>>
    /\ stmt = NoStmt
    /\ heap = <<RowsFromCSVStringCall(SessionColumns, SessionCsv).rows>>
    /\ dest = <<>>
    /\ ret = Returned("NewConn")
    /\ panicked = FALSE
    /\ regs = <<EmptyMap>>
    /\ rowsHist = <<[columns |-> SessionColumns, s |-> SessionCsv,
                     closeCalled |-> FALSE, log |-> <<>>]>>
    /\ opened = <<>>
    /\ calls = <<>>
    /\ qb = <<>>
    /\ qv = <<>>

NextSession ==
    \/ \E f \in {"bySpace", NilFunc} : SetQueryFunc(1, f)
    \/ \E q \in SessionQueries, r \in DOMAIN heap : StubQuery(1, q, r)
    \/ \E q \in SessionQueries : StubQueryError(1, q, TestErr("E1"))
    \/ \E q \in SessionQueries : Prepare(1, q)
    \/ StmtQuery(<<>>)
    \/ \E op \in NoOps : NoOp(op)
    \/ \E r \in DOMAIN heap : RowsNext(r, Len(heap[r].columns))
    \/ \E r \in DOMAIN heap : RowsErr(r)
    \/ \E r \in DOMAIN heap : RowsClose(r)

SpecSession == InitSession /\ [][NextSession]_vars

----------------------------------------------------------------------------
(* The race specification: a Driver with no Conn and no open function,     *)
(* goroutines that each call Open once with no lock, and registrations and *)
(* Prepare on the Conn objects made.                                       *)

RaceQuery == <<"a">>

InitRace ==
    /\ driver = [open |-> NilFunc, conn |-> NilRef]
    /\ conns = <<>>
    /\ stmt = NoStmt
    /\ heap = <<>>
    /\ dest = <<>>
    /\ ret = Returned("")
    /\ panicked = FALSE
    /\ regs = <<>>
    /\ rowsHist = <<>>
    /\ opened = <<>>
    /\ calls = [g \in Goroutines |-> IdleCall]
    /\ qb = <<>>
    /\ qv = <<>>

NextRace ==
    \/ \E g \in Goroutines : OpenStart(g)
    \/ \E g \in Goroutines : OpenCheck(g)
    \/ \E g \in Goroutines : OpenCreate(g)
    \/ \E g \in Goroutines : OpenReturn(g)
    \/ \E g \in Goroutines : calls[g].pc = "done" /\ StubQuery(calls[g].conn, RaceQuery, 1)
    \/ \E g \in Goroutines : calls[g].pc = "done" /\ Prepare(calls[g].conn, RaceQuery)

SpecRace == InitRace /\ [][NextRace]_vars

----------------------------------------------------------------------------
(* Properties of the Rows specification.                                   *)

\* C1: of the Next calls made on a Rows of N rows, the k-th returns no error and
\* delivers row k for k <= N, and returns io.EOF and delivers nothing for k > N;
\* a call panics only when its buffer is shorter than the column list.
C1_NextTermination ==
    \A r \in DOMAIN heap :
        LET N   == Len(heap[r].rows)
            log == rowsHist[r].log
        IN  \A k \in DOMAIN log :
                /\ log[k].panic =>
                        /\ k = Len(log)
                        /\ ret.op = "Rows.Next"
                        /\ ret.val[1] < Len(heap[r].columns)
                /\ (~log[k].panic /\ k <= N) => log[k].err = NilErr /\ log[k].idx = k
                /\ k > N => log[k].err = EOF /\ log[k].idx = 0 /\ ~log[k].panic

\* C1: a Rows of two rows after four Next calls, the last two returning io.EOF.
C1_Witness ==
    /\ ~panicked
    /\ \E r \in DOMAIN heap :
        /\ Len(heap[r].rows) = 2
        /\ Len(rowsHist[r].log) = 4
        /\ rowsHist[r].log[2].err = NilErr
        /\ rowsHist[r].log[3].err = EOF
        /\ rowsHist[r].log[4].err = EOF

\* C9: in every state of a Rows, Columns returns the list RowsFromCSVString was
\* given, in its order.
C9_ColumnsFixed ==
    /\ \A r \in DOMAIN heap : RowsColumnsCall(heap[r]) = rowsHist[r].columns
    /\ ret.op = "Rows.Columns" => ret.val = rowsHist[ret.ref].columns

\* C9: Columns returned the two names given, on a Rows that held rows, has been
\* exhausted and has been closed.
C9_Witness ==
    /\ ret.op = "Rows.Columns"
    /\ ret.val = <<"name", "created_at">>
    /\ rowsHist[ret.ref].columns = <<"name", "created_at">>
    /\ heap[ret.ref].closed
    /\ rowsHist[ret.ref].closeCalled
    /\ Len(rowsHist[ret.ref].log) >= 2

\* v has the form YYYY-MM-DD
DateForm(v) ==
    /\ Len(v) = 10
    /\ \A i \in {1, 2, 3, 4, 6, 7, 9, 10} : IsDigit(v[i])
    /\ v[5] = "-" /\ v[8] = "-"

\* v has the form YYYY-MM-DD, a space, HH:MM:SS
DateTimeForm(v) ==
    /\ Len(v) = 19
    /\ DateForm(SubSeq(v, 1, 10))
    /\ v[11] = " "
    /\ \A i \in {12, 13, 15, 16, 18, 19} : IsDigit(v[i])
    /\ v[14] = ":" /\ v[17] = ":"

\* the date v starts with is a day of the calendar
NamesDay(v) ==
    /\ Num(v, 6, 2) \in 1..12
    /\ Num(v, 9, 2) \in 1..DaysIn(Num(v, 6, 2), Num(v, 1, 4))

\* the time of day v ends with is one of the clock
NamesClock(v) == Num(v, 12, 2) < 24 /\ Num(v, 15, 2) < 60 /\ Num(v, 18, 2) < 60

\* the trimmed fields of the records the CSV reader returned for Rows r, with
\* the cells made of them
FieldCellsOf(r) ==
    LET recs == CsvRecords(TrimSpace(rowsHist[r].s))
    IN  UNION {{[v |-> TrimSpace(recs[i][j]), cell |-> heap[r].rows[i][j]] :
                    j \in DOMAIN recs[i] \cap DOMAIN heap[r].rows[i]} :
               i \in DOMAIN heap[r].rows}

FieldCells == UNION {FieldCellsOf(r) : r \in DOMAIN heap}

\* C10: a cell whose trimmed text is a date YYYY-MM-DD is a timestamp of that day
\* at 00:00:00; one whose trimmed text is YYYY-MM-DD, a space and HH:MM:SS is a
\* timestamp of that day and time; every other cell is its trimmed text.
C10_CellInference ==
    \A c \in FieldCells :
        IF DateForm(c.v)
        THEN NamesDay(c.v) =>
                c.cell = Time(Num(c.v, 1, 4), Num(c.v, 6, 2), Num(c.v, 9, 2), 0, 0, 0)
        ELSE IF DateTimeForm(c.v)
        THEN (NamesDay(c.v) /\ NamesClock(c.v)) =>
                c.cell = Time(Num(c.v, 1, 4), Num(c.v, 6, 2), Num(c.v, 9, 2),
                              Num(c.v, 12, 2), Num(c.v, 15, 2), Num(c.v, 18, 2))
        ELSE c.cell = StringValue(c.v)

\* C10, the part the code keeps: a cell whose trimmed text is YYYY-MM-DD, a space
\* and HH:MM:SS is a timestamp of that day and time, and a cell the time pattern
\* does not match is its trimmed text.
C10_DateTimeCellInference ==
    \A c \in FieldCells :
        /\ (DateTimeForm(c.v) /\ NamesDay(c.v) /\ NamesClock(c.v)) =>
                c.cell = Time(Num(c.v, 1, 4), Num(c.v, 6, 2), Num(c.v, 9, 2),
                              Num(c.v, 12, 2), Num(c.v, 15, 2), Num(c.v, 18, 2))
        /\ (~DateForm(c.v) /\ ~DateTimeForm(c.v) /\ ~TimeRegexMatch(c.v)) =>
                c.cell = StringValue(c.v)
        /\ (DateForm(c.v) \/ (TimeRegexMatch(c.v) /\ ~DateTimeForm(c.v))) =>
                c.cell = ZeroTime

\* C11: RowsFromCSVString returns a Rows for records of fewer, as many and more
\* fields than there are columns; every row of it has as many cells as there
\* are columns, and every cell is a text or a timestamp.
C11_RowsMatchColumns ==
    /\ ret.op = "RowsFromCSVString" => ~panicked
    /\ \A r \in DOMAIN heap : \A i \in DOMAIN heap[r].rows :
            /\ Len(heap[r].rows[i]) = Len(heap[r].columns)
            /\ \A j \in DOMAIN heap[r].rows[i] :
                    heap[r].rows[i][j].kind \in {"string", "time"}

\* C11, the part the code keeps: every row of a Rows that RowsFromCSVString
\* returned has as many cells as there are columns.
C11_RowWidth ==
    \A r \in DOMAIN heap : \A i \in DOMAIN heap[r].rows :
        Len(heap[r].rows[i]) = Len(heap[r].columns)

\* the rows RowsFromCSVString made for the Rows r
BuiltRows(r) == RowsFromCSVStringCall(rowsHist[r].columns, rowsHist[r].s).rows.rows

\* C12: Close returns no error, and a Rows on which Close has been called, any
\* number of times and between any Next calls, is in the state its construction
\* and its Next calls alone give it: the cursor is the number of Next calls, the
\* closed flag tells whether it has passed the last row, and the columns and
\* the rows are those built.
C12_CloseHasNoEffect ==
    /\ ret.op = "Rows.Close" => ret.err = NilErr
    /\ \A r \in DOMAIN heap :
            rowsHist[r].closeCalled =>
                /\ heap[r].pos = Len(rowsHist[r].log)
                /\ heap[r].closed = (Len(rowsHist[r].log) > Len(BuiltRows(r)))
                /\ heap[r].columns = rowsHist[r].columns
                /\ heap[r].rows = BuiltRows(r)

\* C12: a Next call made after Close delivered the second of two rows.
C12_Witness ==
    /\ ~panicked
    /\ ret.op = "Rows.Next"
    /\ ret.err = NilErr
    /\ rowsHist[ret.ref].closeCalled
    /\ heap[ret.ref].pos = 2
    /\ Len(heap[ret.ref].rows) = 2

\* C15: a Next call that returns no error, the k-th on its Rows, leaves in the
\* buffer the cells of the k-th row built, position by position, and the rows
\* held are those built.
C15_NextDeliversRowInOrder ==
    /\ \A r \in DOMAIN heap : heap[r].rows = BuiltRows(r)
    /\ (ret.op = "Rows.Next" /\ ret.err = NilErr /\ ~panicked) =>
            LET k == Len(rowsHist[ret.ref].log)
            IN  /\ k \in DOMAIN BuiltRows(ret.ref)
                /\ Len(dest) = Len(BuiltRows(ret.ref)[k])
                /\ \A i \in DOMAIN dest : dest[i] = BuiltRows(ret.ref)[k][i]

\* C15: the second Next call delivered the second row, which differs from the
\* first.
C15_Witness ==
    /\ ~panicked
    /\ ret.op = "Rows.Next"
    /\ ret.err = NilErr
    /\ Len(rowsHist[ret.ref].log) = 2
    /\ dest = heap[ret.ref].rows[2]
    /\ heap[ret.ref].rows[2] # heap[ret.ref].rows[1]
    /\ Len(dest) = 2

\* the closed flag of every Rows tells whether its cursor has passed the last
\* row, and whether a Next call on it has returned io.EOF
ClosedIffExhausted ==
    \A r \in DOMAIN heap :
        /\ heap[r].closed = (heap[r].pos > Len(heap[r].rows))
        /\ heap[r].closed = (\E k \in DOMAIN rowsHist[r].log : rowsHist[r].log[k].err = EOF)

\* no step moves a cursor back or clears a closed flag
CursorAndClosedKept ==
    \A r \in DOMAIN heap :
        /\ heap'[r].pos >= heap[r].pos
        /\ heap[r].closed => heap'[r].closed

\* C16: in every state the closed flag of a Rows is set exactly when its cursor
\* has passed the last row, which is exactly when a Next call has returned
\* io.EOF; no step moves the cursor back or clears the flag.
C16_ClosedIffExhausted == [](ClosedIffExhausted) /\ [][CursorAndClosedKept]_vars

\* C16: a Rows of one row, closed by the second Next call and then given a
\* third, with Close called on it.
C16_Witness ==
    \E r \in DOMAIN heap :
        /\ Len(heap[r].rows) = 1
        /\ heap[r].pos = 3
        /\ heap[r].closed
        /\ rowsHist[r].closeCalled


----------------------------------------------------------------------------
(* Properties of the Driver specification.                                 *)

\* the Conn objects the Open calls since the latest configuration returned
OpenedConns == {opened[i].conn : i \in DOMAIN opened}

\* C7: with no open function set, the Open calls made since the Driver was last
\* configured all return one Conn, the Driver's; Open makes it only when the
\* Driver holds none, so at most once and at the first of them; and Prepare on
\* the Conn of any of these Open calls finds the stub registered on the Conn of
\* any other.
C7_SharedConnReused ==
    driver.open = NilFunc =>
        /\ \A i \in DOMAIN opened :
                /\ opened[i].conn # NilRef
                /\ opened[i].conn = driver.conn
                /\ opened[i].created <=> opened[i].before = NilRef
                /\ opened[i].created => i = 1
        /\ Cardinality(OpenedConns) <= 1
        /\ (ret.op = "Driver.Open") => ret.err = NilErr /\ ret.ref = driver.conn
        /\ (ret.op = "Prepare" /\ ret.ref \in OpenedConns) =>
                \A c \in OpenedConns :
                    getQueryHash(ret.q) \in DOMAIN regs[c] =>
                        /\ ret.err = NilErr
                        /\ stmt.result = regs[c][getQueryHash(ret.q)].rows

\* C7: after three Open calls, the first of which made the Conn, Prepare on the
\* Conn found the stub registered on it.
C7_Witness ==
    /\ driver.open = NilFunc
    /\ Len(opened) = 3
    /\ opened[1].created
    /\ ret.op = "Prepare"
    /\ ret.ref = opened[3].conn
    /\ getQueryHash(ret.q) \in DOMAIN regs[opened[1].conn]
    /\ ret.err = NilErr
    /\ stmt.result = 1

\* C7: three Open calls on a Driver that was given a Conn returned that Conn.
C7_WitnessSupplied ==
    /\ driver.open = NilFunc
    /\ Len(opened) = 3
    /\ ~opened[1].created
    /\ \A i \in DOMAIN opened : opened[i].conn = opened[1].before

\* C14: with an open function set, Open(dsn) calls it once with dsn and returns
\* the Conn and the error it returns; the Conn of the Driver is not returned,
\* and it is left as it was, whether one was supplied through SetConnection or
\* not.
C14_OpenFuncReplacesOpen ==
    (ret.op = "Driver.Open" /\ driver.open # NilFunc) =>
        /\ Len(ret.cb) = 1
        /\ ret.cb[1] \in Dsns
        /\ LET r == CallOpenFunc(driver.open, ret.cb[1])
           IN  /\ ret.err = r.err
               /\ ret.ref = (IF r.new THEN Len(conns) ELSE NilRef)
               /\ opened[Len(opened)].created = r.new
        /\ driver.conn = opened[Len(opened)].before
        /\ driver.conn # NilRef => ret.ref # driver.conn

\* C14: Open returned the new Conn of the open function, with no error, on a
\* Driver that was supplied a Conn.
C14_Witness ==
    /\ ret.op = "Driver.Open"
    /\ driver.open # NilFunc
    /\ driver.conn # NilRef
    /\ ret.err = NilErr
    /\ ret.ref # NilRef
    /\ ret.ref # driver.conn

----------------------------------------------------------------------------
(* Properties of the text specification.                                   *)

\* the text has a white space character that the pattern \s does not match
HasUnmatchedSpace(q) == \E i \in DOMAIN q : q[i] \in UnicodeSpace \ ReSpace

\* C6: a text made from another by inserting and removing white space
\* characters and changing the case of letters has the same key, and so has
\* its normalised form; the registry therefore holds one entry however the
\* variants are registered, and Prepare of the text or of the variant finds
\* the latest registration made under either.
C6_KeyIgnoresSpaceAndCase ==
    /\ getQueryHash(qv) = getQueryHash(qb)
    /\ getQueryHash(ToLower(ReplaceAllWhitespace(qv))) = getQueryHash(qv)
    /\ Cardinality(DOMAIN conns[1].queries) <= 1
    /\ (ret.op = "Prepare" /\ DOMAIN regs[1] # {}) =>
            /\ ret.err = NilErr
            /\ \A k \in DOMAIN regs[1] :
                    stmt.result = regs[1][k].rows /\ stmt.err = regs[1][k].err

\* The same for the white space that the pattern \s matches: two variants
\* with no other white space character have the same key, and normalising
\* twice gives the key of normalising once.
C6_KeyIgnoresMatchedSpaceAndCase ==
    /\ (~HasUnmatchedSpace(qv) /\ ~HasUnmatchedSpace(qb)) =>
            getQueryHash(qv) = getQueryHash(qb)
    /\ getQueryHash(ToLower(ReplaceAllWhitespace(qv))) = getQueryHash(qv)

----------------------------------------------------------------------------
(* Properties of the registry specification.                               *)

\* s occurs in text
Contains(text, s) ==
    \E i \in 1..(Len(text) + 1) :
        /\ i + Len(s) - 1 <= Len(text)
        /\ SubSeq(text, i, i + Len(s) - 1) = s

\* the latest call was Prepare on a Conn with no query function
PreparedByRegistry == ret.op = "Prepare" /\ conns[ret.ref].queryFunc = NilFunc

\* the key of the query of the latest Prepare has been registered on its Conn
PreparedKeyRegistered == getQueryHash(ret.q) \in DOMAIN regs[ret.ref]

\* Stmt.Query returns the pair the Stmt holds
QueryReturnsStmt ==
    ret.op = "Stmt.Query" => ret.ref = stmt.result /\ ret.err = stmt.err

\* C2: with no query function installed, Prepare(q) of a query whose key no
\* registration has used returns an error whose message contains q as passed in,
\* whatever has been registered for other queries.
C2_UnstubbedErrorNamesQuery ==
    (PreparedByRegistry /\ ~PreparedKeyRegistered) =>
        /\ ret.err # NilErr
        /\ ret.err.kind = "errorString"
        /\ Contains(ret.err.msg, ret.q)

\* C2: Prepare("A") failed, on a Conn that holds a stub for another query.
C2_Witness ==
    /\ PreparedByRegistry
    /\ ~PreparedKeyRegistered
    /\ ret.q = <<"A">>
    /\ DOMAIN regs[ret.ref] # {}
    /\ ret.err # NilErr

\* C3: with no query function installed, Prepare of a query whose key has been
\* registered yields a Stmt holding exactly the arguments of the latest
\* registration under that key, of either kind, and nothing of an earlier one;
\* Stmt.Query returns that pair.
C3_LastRegistrationWins ==
    /\ (PreparedByRegistry /\ PreparedKeyRegistered) =>
            LET g == regs[ret.ref][getQueryHash(ret.q)]
            IN  /\ ret.err = NilErr
                /\ stmt.result = g.rows
                /\ stmt.err = g.err
                /\ g.kind = "result" => stmt.err = NilErr
                /\ g.kind = "error" => stmt.result = NilRef
    /\ QueryReturnsStmt

\* C3: StubQuery has just replaced an error stub, and the entry holds the Rows
\* alone.
C3_Witness ==
    /\ ret.op = "StubQuery"
    /\ ret.prev = "error"
    /\ \E k \in DOMAIN conns[1].queries :
           /\ regs[1][k].kind = "result"
           /\ conns[1].queries[k] = Query(2, NilErr)

\* C4: with no query function installed, Prepare of a query whose latest
\* registration was StubQueryError(q, E) yields a Stmt whose Query returns E
\* itself and no Rows, whatever was registered under other keys and whatever
\* calls were made in between.
C4_ErrorStubRoundTrip ==
    /\ (PreparedByRegistry /\ PreparedKeyRegistered
            /\ regs[ret.ref][getQueryHash(ret.q)].kind = "error") =>
            /\ ret.err = NilErr
            /\ stmt.err = regs[ret.ref][getQueryHash(ret.q)].err
            /\ stmt.result = NilRef
    /\ (ret.op = "Stmt.Query" /\ stmt.via = "stub") =>
            ret.err = stmt.err /\ ret.ref = stmt.result

\* C4: Stmt.Query of a Stmt made from a stub returned the registered error E1,
\* on a Conn holding stubs under two keys.
C4_Witness ==
    /\ ret.op = "Stmt.Query"
    /\ stmt.via = "stub"
    /\ ret.err = TestErr("E1")
    /\ ret.ref = NilRef
    /\ Cardinality(DOMAIN conns[1].queries) >= 2

\* C5: with a query function installed, Prepare(q) calls it once with q as
\* passed in, returns no error, and the Stmt holds (and its Query returns) the
\* pair the function returned, whether or not q is registered.
C5_OverrideTakesPrecedence ==
    /\ (ret.op = "Prepare" /\ conns[ret.ref].queryFunc # NilFunc) =>
            LET r == CallQueryFunc(conns[ret.ref].queryFunc, ret.q)
            IN  /\ ret.cb = <<ret.q>>
                /\ ret.err = NilErr
                /\ stmt.result = r.result
                /\ stmt.err = r.err
    /\ (ret.op = "Stmt.Query" /\ stmt.via = "func") =>
            ret.err = stmt.err /\ ret.ref = stmt.result

\* C5: Prepare("A") went to the query function although the key of "A" holds a
\* stub with another outcome.
C5_Witness ==
    /\ ret.op = "Prepare"
    /\ conns[ret.ref].queryFunc = "bySpace"
    /\ ret.q = <<"A">>
    /\ ret.cb = <<ret.q>>
    /\ getQueryHash(ret.q) \in DOMAIN conns[ret.ref].queries
    /\ conns[ret.ref].queries[getQueryHash(ret.q)] = Query(NilRef, TestErr("E2"))
    /\ stmt.result = 1

\* C8: every entry of every registry has exactly one of result and err set.
C8_ExactlyOnePopulated ==
    \A c \in DOMAIN conns : \A k \in DOMAIN conns[c].queries :
        (conns[c].queries[k].result # NilRef) # (conns[c].queries[k].err # NilErr)

\* C8: no entry has both result and err set.
C8_NeverBoth ==
    \A c \in DOMAIN conns : \A k \in DOMAIN conns[c].queries :
        ~(conns[c].queries[k].result # NilRef /\ conns[c].queries[k].err # NilErr)

\* C18: Prepare returns an error exactly when its Conn has no query function
\* and no entry under the key of the query; the error of an error stub or of
\* the query function is held by the Stmt, and Stmt.Query returns the pair the
\* Stmt holds for every argument list, at every call.
C18_PrepareErrorOnlyWhenUnstubbed ==
    /\ ret.op = "Prepare" =>
            /\ (ret.err # NilErr) =
                    (/\ conns[ret.ref].queryFunc = NilFunc
                     /\ getQueryHash(ret.q) \notin DOMAIN conns[ret.ref].queries)
            /\ stmt.valid
            /\ ret.err # NilErr => stmt.result = NilRef /\ stmt.err = NilErr
    /\ stmt.valid =>
            \A args \in ArgLists : StmtQueryCall(stmt, args) = Query(stmt.result, stmt.err)
    /\ ret.op = "Stmt.Query" => ret.err = stmt.err /\ ret.ref = stmt.result

\* C18: Prepare returned no error and a Stmt that holds the error of an error
\* stub.
C18_Witness ==
    /\ ret.op = "Prepare"
    /\ ret.err = NilErr
    /\ stmt.via = "stub"
    /\ stmt.err = TestErr("E2")
    /\ stmt.result = NilRef

----------------------------------------------------------------------------
(* Properties of the session specification.                                *)

\* the calls that return no error
AlwaysNil == {"Conn.Exec", "Stmt.Exec", "Conn.Begin", "Tx.Commit", "Tx.Rollback",
              "Conn.Close", "Stmt.Close", "Rows.Err"}

\* C13: Conn.Exec, Stmt.Exec, Conn.Begin, Tx.Commit, Tx.Rollback, Conn.Close,
\* Stmt.Close and Rows.Err return no error, in every state and after every
\* sequence of calls; Prepare after them finds what is registered.
C13_NoOpsReturnNoError ==
    /\ ret.op \in AlwaysNil => ret.err = NilErr
    /\ \A op \in AlwaysNil \ {"Rows.Err"} : NoOpCall(op) = NilErr
    /\ \A r \in DOMAIN heap : RowsErrCall(heap[r]) = NilErr
    /\ (PreparedByRegistry /\ PreparedKeyRegistered) => ret.err = NilErr

\* C13: Tx.Commit returned no error, on a Conn with a stub and a Stmt, whose
\* Rows is exhausted and closed.
C13_Witness ==
    /\ ret.op = "Tx.Commit"
    /\ ret.err = NilErr
    /\ stmt.valid
    /\ DOMAIN conns[1].queries # {}
    /\ heap[1].closed
    /\ rowsHist[1].closeCalled

\* the registry of every Conn is empty
RegistriesEmpty == \A c \in DOMAIN conns : conns[c].queries = EmptyMap

\* a step changes a registry only when it is a registration, and removes no key
RegistryKept ==
    \A c \in DOMAIN conns :
        /\ c \in DOMAIN conns'
        /\ conns'[c].queries # conns[c].queries =>
                ret'.op \in {"StubQuery", "StubQueryError"}
        /\ DOMAIN conns[c].queries \subseteq DOMAIN conns'[c].queries

\* C17: the registry of a Conn made by NewConn is empty; only StubQuery and
\* StubQueryError change it, and no call removes a key of it.
C17_RegistryChangedOnlyByStubs == RegistriesEmpty /\ [][RegistryKept]_vars

\* C17: the registry holds two keys, after Prepare through the query function,
\* with a Stmt made and the Rows read.
C17_Witness ==
    /\ Cardinality(DOMAIN conns[1].queries) = 2
    /\ ret.op = "Prepare"
    /\ conns[1].queryFunc # NilFunc
    /\ heap[1].pos > 0

\* C19: Stmt.Query of a Stmt made from a result stub returns the Rows that was
\* registered, itself; the cursor of a Rows is the number of Next calls made on
\* it, whatever was registered, prepared and queried in between, so the next
\* call delivers the row after the last one delivered, or io.EOF when none is
\* left.
C19_RowsHandedOutByReference ==
    /\ \A r \in DOMAIN heap : heap[r].pos = Len(rowsHist[r].log)
    /\ (PreparedByRegistry /\ PreparedKeyRegistered) =>
            stmt.result = regs[ret.ref][getQueryHash(ret.q)].rows
    /\ (ret.op = "Stmt.Query" /\ stmt.result # NilRef) =>
            /\ ret.ref = stmt.result
            /\ ret.ref \in DOMAIN heap
            /\ LET k == Len(rowsHist[ret.ref].log)
                   c == RowsNextCall(heap[ret.ref], <<NilValue>>)
               IN  IF k < Len(heap[ret.ref].rows)
                   THEN c.err = NilErr /\ c.idx = k + 1
                   ELSE c.err = EOF

\* C19: Stmt.Query of a Stmt made from a stub returned the Rows after one of
\* its two rows had been delivered.
C19_Witness ==
    /\ ret.op = "Stmt.Query"
    /\ stmt.via = "stub"
    /\ ret.ref = 1
    /\ heap[1].pos = 1
    /\ ~heap[1].closed

----------------------------------------------------------------------------
(* Properties of the race specification.                                   *)

\* the Open calls that have returned
Done == {g \in Goroutines : calls[g].pc = "done"}

\* C20: two Open calls return two different Conn objects only when Open calls
\* were made at once and two of them both found d.conn nil; Open calls made one
\* after the other all return the same Conn. Each Conn has a registry of its
\* own: Prepare on a Conn finds a query exactly when it was registered on that
\* Conn.
C20_DistinctConnsOnlyWhenInterleaved ==
    /\ (\E g, h \in Done : calls[g].conn # calls[h].conn) =>
            \E g, h \in Goroutines :
                /\ g # h
                /\ calls[g].sawNil /\ calls[h].sawNil
                /\ calls[g].raced /\ calls[h].raced
    /\ (\A g \in Goroutines : ~calls[g].raced) =>
            \A g, h \in Done : calls[g].conn = calls[h].conn
    /\ \A g \in Done : calls[g].conn \in DOMAIN conns
    /\ PreparedByRegistry =>
            ((ret.err = NilErr) = (getQueryHash(ret.q) \in DOMAIN regs[ret.ref]))

\* C20: two Open calls that both found d.conn nil have returned two Conn
\* objects, the query is registered on one of them, and Prepare on the other
\* has not found it.
C20_Witness ==
    \E g, h \in Done :
        /\ calls[g].conn # calls[h].conn
        /\ calls[g].sawNil /\ calls[h].sawNil
        /\ getQueryHash(RaceQuery) \in DOMAIN conns[calls[g].conn].queries
        /\ ret.op = "Prepare"
        /\ ret.ref = calls[h].conn
        /\ ret.q = RaceQuery
        /\ ret.err # NilErr

====
